---- MODULE Spec2Model ----
(***************************************************************************)
(* A top-to-bottom run of the notebook L8_osmnx-basics.ipynb.              *)
(*                                                                         *)
(* The state is the kernel's namespace (ns), the dict objects it refers to *)
(* (heap), the files written, the calls made into the libraries, a log of  *)
(* the cells run so far and the position of the run.  The remote          *)
(* services, the boundary file and the numeric results of the libraries    *)
(* are the record `world`, fixed when the run starts.  Every code cell is a list of statements; a cell either         *)
(* completes, or one of its statements raises and the run halts there.     *)
(***************************************************************************)
EXTENDS Integers, Sequences, FiniteSets, TLC

VARIABLES pc, status, error, executing, ns, heap, files, calls, log, world

vars == <<pc, status, error, executing, ns, heap, files, calls, log, world>>

(* ------------------------------ bounds -------------------------------- *)
MaxNodes == 2
MaxEdges == 2
MaxScore == 1
MaxRows == 2
MaxPolys == 2
MaxStreets == 1
MaxVal == 1
MaxReruns == 2

(* ------------------------- notebook constants ------------------------- *)
\* the number of code cells of the notebook
NCells == 23

\* the district name of the filter, N03_004 == "千代田区" in the source
\* (written here in Latin letters)
CHIYODA_KU == "Chiyoda-ku"
\* any other district name of the boundary file
OTHER_KU == "Chuo-ku"

\* "./data-output/hk_graph.gpkg", as path segments
GPKG_FILEPATH == <<".", "data-output", "hk_graph.gpkg">>
\* "./data-output/hk_graph/", as path segments
SHP_FILEPATH == <<".", "data-output", "hk_graph">>
\* (the bug of saving the image beside the other two outputs)
SVG_FILEPATH_InDataOutput == <<".", "data-output", "hk_graph.svg">>

\* "./hk_graph.svg", as path segments
SVG_FILEPATH == <<".", "hk_graph.svg">>

\* the directory a path lies in
Parent(path) == SubSeq(path, 1, Len(path) - 1)

(* ------------------------------ values -------------------------------- *)
EmptyFcn == [x \in {} |-> 0]

\* d[k] = v of a Python dict
Put(d, k, v) == [x \in DOMAIN d \cup {k} |-> IF x = k THEN v ELSE d[x]]

\* del d[k]
Del(d, k) == [x \in DOMAIN d \ {k} |-> d[x]]

Range(s) == {s[i] : i \in DOMAIN s}

\* the elements of a set of integers in ascending order
RECURSIVE Ascending(_)
Ascending(S) ==
    IF S = {} THEN <<>>
    ELSE LET m == CHOOSE x \in S : \A y \in S : x <= y
         IN <<m>> \o Ascending(S \ {m})

\* a scalar and a nested dict as values of the stats dict
Num(v) == [kind |-> "num", v |-> v]
Dict(d) == [kind |-> "dict", v |-> d]

(* ------------------------------ graphs -------------------------------- *)
\* the street_count node attribute OSMnx puts on every node it extracts:
\* the number of streets incident to the node
StreetCount(edges, n) ==
    Cardinality({{e[1], e[2]} : e \in {f \in edges : n \in {f[1], f[2]}}})

\* a MultiDiGraph: nodes in insertion order, edges (u, v, key), node data
MkGraph(nodes, edges) ==
    [nodes |-> nodes,
     edges |-> edges,
     data  |-> [n \in Range(nodes) |-> [a \in {"street_count"} |-> StreetCount(edges, n)]]]

\* networkx gives a new parallel edge the next free key
AddEdge(edges, u, v) ==
    edges \cup {<<u, v, Cardinality({e \in edges : e[1] = u /\ e[2] = v})>>}

RECURSIVE EdgeSets(_, _)
EdgeSets(N, k) ==
    IF k = 0 THEN {{}}
    ELSE LET prev == EdgeSets(N, k - 1)
         IN prev \cup {AddEdge(es, u, v) : es \in prev, u \in N, v \in N}

\* the orders in which the nodes 1..n can have been inserted
NodeSeqs ==
    UNION {{s \in [1..n -> 1..n] : \A i, j \in 1..n : s[i] = s[j] => i = j}
           : n \in 1..MaxNodes}

\* the (non-empty) graphs an extraction can return
Graphs ==
    UNION {{MkGraph(s, es) : es \in EdgeSets(Range(s), MaxEdges)} : s \in NodeSeqs}

BaseGraph == MkGraph(<<1>>, {})

(* ------------------------- the boundary table ------------------------- *)
Rows == [N03_004 : {CHIYODA_KU, OTHER_KU}, geometry : 1..MaxPolys]

Tables == UNION {[1..n -> Rows] : n \in 0..MaxRows}

BaseTable == <<[N03_004 |-> CHIYODA_KU, geometry |-> 1]>>

\* gpd.read_file: a GeoDataFrame with the index labels 0..n-1
read_file(rows) ==
    [index |-> [i \in 1..Len(rows) |-> i - 1], rows |-> rows]

RECURSIVE KeepPositions(_, _, _)
KeepPositions(df, name, i) ==
    IF i > Len(df.rows) THEN <<>>
    ELSE (IF df.rows[i].N03_004 = name THEN <<i>> ELSE <<>>)
         \o KeepPositions(df, name, i + 1)

\* df[df.N03_004 == name]: the matching rows, each with the label it had
FilterByName(df, name) ==
    LET keep == KeepPositions(df, name, 1)
    IN [index |-> [i \in 1..Len(keep) |-> df.index[keep[i]]],
        rows  |-> [i \in 1..Len(keep) |-> df.rows[keep[i]]]]

\* df['geometry']: a Series with the frame's index
GeometryColumn(df) ==
    [index |-> df.index, values |-> [i \in 1..Len(df.rows) |-> df.rows[i].geometry]]

\* series[label] on an integer index looks the label up
HasLabel(series, label) == \E i \in DOMAIN series.index : series.index[i] = label

AtLabel(series, label) ==
    series.values[CHOOSE i \in DOMAIN series.index : series.index[i] = label]

(* --------------------------- the stats dict --------------------------- *)
StatsKeys == {"n", "m", "streets_per_node_counts", "streets_per_node_proportions"}

RECURSIVE Sum(_, _)
Sum(f, S) ==
    IF S = {} THEN 0
    ELSE LET x == CHOOSE y \in S : TRUE IN f[x] + Sum(f, S \ {x})

\* the dict basic_stats returns: the scalars n and m, the number of nodes per
\* street count, and the same as a proportion <<count, number of nodes>>
MkStats(n, m, c) ==
    [k \in StatsKeys |->
        CASE k = "n" -> Num(n)
          [] k = "m" -> Num(m)
          [] k = "streets_per_node_counts" -> Dict(c)
          [] OTHER -> Dict([i \in DOMAIN c |-> <<c[i], Sum(c, DOMAIN c)>>])]

StatsDicts ==
    {MkStats(n, m, c) : n \in 0..MaxVal, m \in 0..MaxVal,
                        c \in UNION {[0..d -> 0..MaxVal] : d \in 0..MaxStreets}}

BaseStats == MkStats(1, 0, [i \in 0..0 |-> 1])

Digit == <<"0", "1", "2", "3", "4", "5", "6", "7", "8", "9">>

\* "{}".format(k) for an integer k >= 0
RECURSIVE IntToStr(_)
IntToStr(k) ==
    IF k < 10 THEN Digit[k + 1] ELSE IntToStr(k \div 10) \o Digit[(k % 10) + 1]

(* ----------------------- running a statement -------------------------- *)
\* The state a statement works on: the kernel's state, the names the cell
\* has looked up, read from earlier cells and written so far, the exception
\* raised (if any), and whether the library call of this statement is to fail.
Kernel(c) ==
    [cell |-> c, ns |-> ns, heap |-> heap, files |-> files, calls |-> calls,
     uses |-> {}, reads |-> {}, writes |-> {}, error |-> "", fault |-> FALSE]

Raise(s, kind) == [s EXCEPT !.error = kind]

\* the statement looks the names up: a NameError when one is not defined
Use(s, names) ==
    IF s.error # "" THEN s
    ELSE IF names \subseteq DOMAIN s.ns
         THEN [s EXCEPT !.uses = @ \cup names, !.reads = @ \cup (names \ s.writes)]
         ELSE Raise(s, "NameError")

\* name = v
Bind(s, name, v) ==
    IF s.error # "" THEN s
    ELSE [s EXCEPT !.ns = Put(@, name, v), !.writes = @ \cup {name}]

\* a call into a library: it is issued, and it may raise
Lib(s, fn, arg, val) ==
    IF s.error # "" THEN s
    ELSE LET t == [s EXCEPT !.calls =
                      Append(@, [cell |-> s.cell, fn |-> fn, arg |-> arg, val |-> val])]
         IN IF s.fault THEN [t EXCEPT !.error = "LibraryError", !.fault = FALSE]
            ELSE t

\* a new dict object
NewRef(s) == Cardinality(DOMAIN s.heap) + 1

Alloc(s, d) ==
    IF s.error # "" THEN s ELSE [s EXCEPT !.heap = Put(@, NewRef(s), d)]

\* the plotting functions, each returning a new figure
Plotters == {"ox.plot_graph", "ox.plot_graph_folium", "chiyoda.plot"}

FigureNo(s) == Cardinality({i \in DOMAIN s.calls : s.calls[i].fn \in Plotters})

\* a file written by an export: `target` is the filepath argument
WriteFiles(s, target, names, var) ==
    IF s.error # "" THEN s
    ELSE [s EXCEPT !.files = @ \cup
            {[target |-> target, path |-> target \o n, var |-> var, cell |-> s.cell]
             : n \in names}]

(* ----------------------- cells 2 to 13: extraction -------------------- *)
\* import geopandas as gpd, networkx as nx, osmnx as ox, pandas as pd
Cell02_import(s) ==
    LET t == Lib(s, "import", "geopandas, networkx, osmnx, pandas", 0)
    IN Bind(Bind(Bind(Bind(t, "gpd", "geopandas"), "nx", "networkx"),
                 "ox", "osmnx"), "pd", "pandas")

\* ox.__version__
Cell02_version(s) == Use(s, {"ox"})

\* hk_graph = ox.graph_from_point(center_point=..., dist=1000, network_type='all_private')
Cell03_graph_from_point(s) ==
    Bind(Lib(Use(s, {"ox"}), "ox.graph_from_point", "(22.3192, 114.1693)", 0),
         "hk_graph", world.point)

\* ox.plot_graph(hk_graph, node_color="w", node_size=5)
Cell04_plot_graph(s) ==
    Lib(Use(s, {"ox", "hk_graph"}), "ox.plot_graph", "hk_graph", 0)

\* BOUNDARY_URL = "https://..."
Cell05_BOUNDARY_URL(s) == Bind(s, "BOUNDARY_URL", "N03-21_13_210101.json")

\* tokyo_pre_boundary = gpd.read_file(BOUNDARY_URL)
Cell05_read_file(s) ==
    Bind(Lib(Use(s, {"gpd", "BOUNDARY_URL"}), "gpd.read_file", "BOUNDARY_URL", 0),
         "tokyo_pre_boundary", read_file(world.file))

\* tokyo_pre_boundary
Cell06_show(s) == Use(s, {"tokyo_pre_boundary"})

\* chiyoda = tokyo_pre_boundary[tokyo_pre_boundary.N03_004 == "..."]
Cell07_filter(s) ==
    LET t == Use(s, {"tokyo_pre_boundary"})
    IN Bind(t, "chiyoda", FilterByName(s.ns["tokyo_pre_boundary"], CHIYODA_KU))

\* chiyoda.plot()
Cell08_plot(s) == Lib(Use(s, {"chiyoda"}), "chiyoda.plot", "chiyoda", 0)

\* chiyoda['geometry'][0]: a KeyError when no row has the label 0
Geometry0(s) ==
    LET t == Use(s, {"chiyoda"})
    IN IF t.error # "" THEN t
       ELSE IF HasLabel(GeometryColumn(s.ns["chiyoda"]), 0) THEN t
       ELSE Raise(t, "KeyError")

Cell09_geometry(s) == Geometry0(s)

\* chiyoda_graph = ox.graph_from_polygon(chiyoda['geometry'][0])
Cell10_graph_from_polygon(s) ==
    LET t == Geometry0(Use(s, {"ox"}))
    IN Bind(Lib(t, "ox.graph_from_polygon", "chiyoda['geometry'][0]",
                AtLabel(GeometryColumn(s.ns["chiyoda"]), 0)),
            "chiyoda_graph", world.polygon)

\* ox.plot_graph(chiyoda_graph)
Cell11_plot_graph(s) ==
    Lib(Use(s, {"ox", "chiyoda_graph"}), "ox.plot_graph", "chiyoda_graph", 0)

\* chiyoda_folium = ox.plot_graph_folium(chiyoda_graph, ...)
Cell12_plot_graph_folium(s) ==
    LET t == Lib(Use(s, {"ox", "chiyoda_graph"}), "ox.plot_graph_folium", "chiyoda_graph", 0)
    IN Bind(t, "chiyoda_folium", [figure |-> FigureNo(t)])

\* chiyoda_folium
Cell12_show(s) == Use(s, {"chiyoda_folium"})

\* ty_graph = ox.graph_from_place("Tsing Yi, Hong Kong")
Cell13_graph_from_place(s) ==
    Bind(Lib(Use(s, {"ox"}), "ox.graph_from_place", "Tsing Yi, Hong Kong", 0),
         "ty_graph", world.place)


(* ----------------------- cells 14 to 16: statistics ------------------- *)
\* (the bug of taking the statistics of another graph)
Cell14_basic_stats_OfTyGraph(s) ==
    LET t == Lib(Use(s, {"ox", "ty_graph"}), "ox.basic_stats", "ty_graph", 0)
    IN Bind(Alloc(t, world.basic_stats), "stats", [ref |-> NewRef(t)])

\* stats = ox.basic_stats(hk_graph): a new dict
Cell14_basic_stats(s) ==
    LET t == Lib(Use(s, {"ox", "hk_graph"}), "ox.basic_stats", "hk_graph", 0)
    IN Bind(Alloc(t, world.basic_stats), "stats", [ref |-> NewRef(t)])

\* (the bug of a cell order with the extraction by place name after the
\* statistics)
Cell15_Series_ThenPlace(s) ==
    Cell13_graph_from_place(Lib(Use(s, {"pd", "stats"}), "pd.Series", "stats", 0))

\* pd.Series(stats)
Cell15_Series(s) == Lib(Use(s, {"pd", "stats"}), "pd.Series", "stats", 0)

\* from copy import deepcopy
Cell16_import(s) ==
    Bind(Lib(s, "import", "copy.deepcopy", 0), "deepcopy", "copy.deepcopy")

\* (the bug of binding the same object: stats_unpack = stats)
deepcopy_Alias(s, r) == [s |-> s, ref |-> r]

\* deepcopy(x): a new object with the contents of the object r
deepcopy(s, r) == [s |-> Alloc(s, s.heap[r]), ref |-> NewRef(s)]

\* stats_unpack = deepcopy(stats)
Cell16_deepcopy(s) ==
    LET t == Use(s, {"deepcopy", "stats"})
        c == deepcopy(t, s.ns["stats"].ref)
    IN IF t.error # "" THEN t ELSE Bind(c.s, "stats_unpack", [ref |-> c.ref])

\* (the bug of a format string without the placeholder)
FormatKey_NoPlaceholder(k, suffix) == suffix

\* the key "{}<suffix>".format(k)
FormatKey(k, suffix) == IntToStr(k) \o suffix

\* for k, v in nested.items(): d["{}<suffix>".format(k)] = v
RECURSIVE UnpackInto(_, _, _, _)
UnpackInto(d, nested, keys, suffix) ==
    IF keys = <<>> THEN d
    ELSE UnpackInto(Put(d, FormatKey(Head(keys), suffix), Num(nested[Head(keys)])),
                    nested, Tail(keys), suffix)

\* one of the two loops of the cell; the loop variables stay bound
UnpackLoop(s, key, suffix, valname) ==
    LET t == Use(s, {"stats_unpack"})
    IN IF t.error # "" THEN t
       ELSE LET r == s.ns["stats_unpack"].ref
                d == s.heap[r]
            IN IF key \notin DOMAIN d THEN Raise(t, "KeyError")
               ELSE LET nested == d[key].v
                        keys == Ascending(DOMAIN nested)
                        u == [t EXCEPT !.heap[r] = UnpackInto(d, nested, keys, suffix)]
                    IN IF keys = <<>> THEN u
                       ELSE Bind(Bind(u, "k", keys[Len(keys)]),
                                 valname, nested[keys[Len(keys)]])

Cell16_unpack_counts(s) ==
    UnpackLoop(s, "streets_per_node_counts", "way_int_count", "count")

Cell16_unpack_proportions(s) ==
    UnpackLoop(s, "streets_per_node_proportions", "way_int_prop", "proportion")

\* del stats_unpack[key]
DelKey(s, key) ==
    LET t == Use(s, {"stats_unpack"})
    IN IF t.error # "" THEN t
       ELSE LET r == s.ns["stats_unpack"].ref
            IN IF key \notin DOMAIN s.heap[r] THEN Raise(t, "KeyError")
               ELSE [t EXCEPT !.heap[r] = Del(@, key)]

Cell16_del_counts(s) == DelKey(s, "streets_per_node_counts")

Cell16_del_proportions(s) == DelKey(s, "streets_per_node_proportions")

\* pd.DataFrame(pd.Series(stats_unpack, name="value")).round(3)
Cell16_DataFrame(s) ==
    Lib(Use(s, {"pd", "stats_unpack"}), "pd.DataFrame", "stats_unpack", 0)

(* ------------------ cells 17 to 20: plots and centrality -------------- *)
\* the nodes of G that have the attribute, in node order
RECURSIVE NodesWith(_, _, _)
NodesWith(G, attr, i) ==
    IF i > Len(G.nodes) THEN <<>>
    ELSE (IF attr \in DOMAIN G.data[G.nodes[i]] THEN <<G.nodes[i]>> ELSE <<>>)
         \o NodesWith(G, attr, i + 1)

\* ox.plot.get_node_colors_by_attr: a colour for every node that has the
\* attribute, its place between the least and the greatest value
get_node_colors_by_attr(G, attr, cmap) ==
    LET having == NodesWith(G, attr, 1)
        vals == {G.data[n][attr] : n \in Range(having)}
        lo == CHOOSE v \in vals : \A w \in vals : v <= w
        hi == CHOOSE v \in vals : \A w \in vals : w <= v
    IN [i \in 1..Len(having) |->
          <<having[i], <<cmap, G.data[having[i]][attr] - lo, hi - lo>>>>]

NodeColors(s, name, attr, cmap) ==
    LET t == Use(s, {"ox", "hk_graph"})
    IN IF t.error # "" THEN t
       ELSE LET G == s.ns["hk_graph"]
                lacking == Len(G.nodes) - Len(NodesWith(G, attr, 1))
                u == Lib(t, "ox.plot.get_node_colors_by_attr", attr, lacking)
            IN IF u.error # "" THEN u
               ELSE IF lacking = Len(G.nodes) THEN Raise(u, "ValueError")
               ELSE Bind(u, name, get_node_colors_by_attr(G, attr, cmap))

\* fig, ax = ox.plot_graph(G, ...)
PlotFigAx(s, names, graph) ==
    LET t == Lib(Use(s, names), "ox.plot_graph", graph, 0)
    IN Bind(Bind(t, "fig", [figure |-> FigureNo(t)]), "ax", [figure |-> FigureNo(t)])

\* nc_street_count = ox.plot.get_node_colors_by_attr(hk_graph, "street_count", cmap="YlGnBu")
Cell17_node_colors(s) == NodeColors(s, "nc_street_count", "street_count", "YlGnBu")

Cell17_plot_graph(s) == PlotFigAx(s, {"ox", "hk_graph", "nc_street_count"}, "hk_graph")

\* ox.get_digraph: the same nodes and node data, parallel edges merged
get_digraph(G) ==
    [nodes |-> G.nodes, edges |-> {<<e[1], e[2]>> : e \in G.edges}, data |-> G.data]

\* (the bug of binding another name: hk_di = ox.get_digraph(hk_graph))
Cell18_get_digraph_OtherName(s) ==
    LET t == Lib(Use(s, {"ox", "hk_graph"}), "ox.get_digraph", "hk_graph", 0)
    IN Bind(t, "hk_di", get_digraph(s.ns["hk_graph"]))

\* hk_graph_di = ox.get_digraph(hk_graph)
Cell18_get_digraph(s) ==
    LET t == Lib(Use(s, {"ox", "hk_graph"}), "ox.get_digraph", "hk_graph", 0)
    IN Bind(t, "hk_graph_di", get_digraph(s.ns["hk_graph"]))

\* nx.betweenness_centrality: a dict with one item per node, in node order
betweenness_centrality(G) ==
    [i \in 1..Len(G.nodes) |-> <<G.nodes[i], world.betweenness[G.nodes[i]]>>]

\* bc = nx.betweenness_centrality(hk_graph_di, weight="length")
Cell18_betweenness(s) ==
    LET t == Lib(Use(s, {"nx", "hk_graph_di"}), "nx.betweenness_centrality", "hk_graph_di", 0)
    IN Bind(t, "bc", betweenness_centrality(s.ns["hk_graph_di"]))

\* max(items, key=lambda x: x[1]): the first item with the greatest value
RECURSIVE MaxItem(_, _, _)
MaxItem(items, i, best) ==
    IF i > Len(items) THEN best
    ELSE MaxItem(items, i + 1, IF items[i][2] > best[2] THEN items[i] ELSE best)

\* max_node, max_bc = max(bc.items(), key=lambda x: x[1])
Cell18_max(s) ==
    LET t == Use(s, {"bc"})
    IN IF t.error # "" THEN t
       ELSE IF s.ns["bc"] = <<>> THEN Raise(t, "ValueError")
       ELSE LET m == MaxItem(s.ns["bc"], 2, s.ns["bc"][1])
            IN Bind(Bind(t, "max_node", m[1]), "max_bc", m[2])

\* max_node, max_bc
Cell18_show(s) == Use(s, {"max_node", "max_bc"})

\* (the bug of colouring by score: nc = ["r" if bc[node] == max_bc else "w" ...])
Cell19_nc_ByScore(s) ==
    LET t == Use(s, {"hk_graph", "bc", "max_bc"})
    IN Bind(t, "nc", [i \in 1..Len(s.ns["hk_graph"].nodes) |->
                        IF s.ns["bc"][i][2] = s.ns["max_bc"] THEN "r" ELSE "w"])

\* nc = ["r" if node == max_node else "w" for node in hk_graph.nodes]
Cell19_nc(s) ==
    LET t == Use(s, {"hk_graph", "max_node"})
    IN Bind(t, "nc", [i \in 1..Len(s.ns["hk_graph"].nodes) |->
                        IF s.ns["hk_graph"].nodes[i] = s.ns["max_node"] THEN "r" ELSE "w"])

\* (the bug of sizing by score: ns = [80 if bc[node] == max_bc else 5 ...])
Cell19_ns_ByScore(s) ==
    LET t == Use(s, {"hk_graph", "bc", "max_bc"})
    IN Bind(t, "ns", [i \in 1..Len(s.ns["hk_graph"].nodes) |->
                        IF s.ns["bc"][i][2] = s.ns["max_bc"] THEN 80 ELSE 5])

\* ns = [80 if node == max_node else 5 for node in hk_graph.nodes]
Cell19_ns(s) ==
    LET t == Use(s, {"hk_graph", "max_node"})
    IN Bind(t, "ns", [i \in 1..Len(s.ns["hk_graph"].nodes) |->
                        IF s.ns["hk_graph"].nodes[i] = s.ns["max_node"] THEN 80 ELSE 5])

\* fig, ax = ox.plot_graph(hk_graph, node_size=ns, node_color=nc, node_zorder=2)
Cell19_plot_graph(s) == PlotFigAx(s, {"ox", "hk_graph", "ns", "nc"}, "hk_graph")

\* G.nodes[n][name] = v for an item (n, v), skipped when n is no node of G
RECURSIVE SetItems(_, _, _, _)
SetItems(data, items, name, i) ==
    IF i > Len(items) THEN data
    ELSE SetItems(IF items[i][1] \in DOMAIN data
                  THEN [data EXCEPT ![items[i][1]] = Put(@, name, items[i][2])]
                  ELSE data,
                  items, name, i + 1)

\* nx.set_node_attributes(G, values, name)
set_node_attributes(G, values, name) ==
    [G EXCEPT !.data = SetItems(@, values, name, 1)]

\* (the bug of writing the scores back under another attribute name than
\* the one the colours are taken by)
Cell20_set_node_attributes_OtherName(s) ==
    LET t == Lib(Use(s, {"nx", "hk_graph", "bc"}), "nx.set_node_attributes", "hk_graph", 0)
    IN Bind(t, "hk_graph", set_node_attributes(s.ns["hk_graph"], s.ns["bc"], "betweenness"))

\* nx.set_node_attributes(hk_graph, bc, "bc"): hk_graph is changed in place
Cell20_set_node_attributes(s) ==
    LET t == Lib(Use(s, {"nx", "hk_graph", "bc"}), "nx.set_node_attributes", "hk_graph", 0)
    IN Bind(t, "hk_graph", set_node_attributes(s.ns["hk_graph"], s.ns["bc"], "bc"))

\* (the bug of giving the second colour list a name of its own)
Cell20_node_colors_OwnName(s) == NodeColors(s, "nc_bc", "bc", "Reds")

\* nc = ox.plot.get_node_colors_by_attr(hk_graph, "bc", cmap="Reds")
Cell20_node_colors(s) == NodeColors(s, "nc", "bc", "Reds")

Cell20_plot_graph(s) == PlotFigAx(s, {"ox", "hk_graph", "nc"}, "hk_graph")

(* -------------------------- cells 21 to 23: export -------------------- *)
\* ox.save_graph_geopackage(hk_graph, filepath="./data-output/hk_graph.gpkg")
Cell21_save_graph_geopackage(s) ==
    WriteFiles(Lib(Use(s, {"ox", "hk_graph"}), "ox.save_graph_geopackage", "hk_graph", 0),
               GPKG_FILEPATH, {<<>>}, "hk_graph")

\* ox.save_graph_shapefile(hk_graph, filepath="./data-output/hk_graph/")
Cell22_save_graph_shapefile(s) ==
    WriteFiles(Lib(Use(s, {"ox", "hk_graph"}), "ox.save_graph_shapefile", "hk_graph", 0),
               SHP_FILEPATH, {<<"nodes.shp">>, <<"edges.shp">>}, "hk_graph")

\* fig, ax = ox.plot_graph(hk_graph, show=False, save=True, close=True, filepath="./hk_graph.svg")
Cell23_save_svg(s) ==
    LET t == WriteFiles(Lib(Use(s, {"ox", "hk_graph"}), "ox.plot_graph",
                            "hk_graph, save=True", 0),
                        SVG_FILEPATH, {<<>>}, "hk_graph")
    IN Bind(Bind(t, "fig", [figure |-> FigureNo(t)]), "ax", [figure |-> FigureNo(t)])


(* ------------------------------ the run ------------------------------- *)
\* the number of statements of each code cell (the first holds only comments)
NStmts == <<0, 2, 1, 1, 2, 1, 1, 1, 1, 1, 1, 2, 1, 1, 1, 7, 2, 4, 3, 3, 1, 1, 1>>

\* statement i of code cell c; a statement after an exception does nothing
Stmt(c, i, s) ==
    IF s.error # "" THEN s
    ELSE CASE c = 2  -> (IF i = 1 THEN Cell02_import(s) ELSE Cell02_version(s))
           [] c = 3  -> Cell03_graph_from_point(s)
           [] c = 4  -> Cell04_plot_graph(s)
           [] c = 5  -> (IF i = 1 THEN Cell05_BOUNDARY_URL(s) ELSE Cell05_read_file(s))
           [] c = 6  -> Cell06_show(s)
           [] c = 7  -> Cell07_filter(s)
           [] c = 8  -> Cell08_plot(s)
           [] c = 9  -> Cell09_geometry(s)
           [] c = 10 -> Cell10_graph_from_polygon(s)
           [] c = 11 -> Cell11_plot_graph(s)
           [] c = 12 -> (IF i = 1 THEN Cell12_plot_graph_folium(s) ELSE Cell12_show(s))
           [] c = 13 -> Cell13_graph_from_place(s)
           [] c = 14 -> Cell14_basic_stats(s)
           [] c = 15 -> Cell15_Series(s)
           [] c = 16 -> CASE i = 1 -> Cell16_import(s)
                          [] i = 2 -> Cell16_deepcopy(s)
                          [] i = 3 -> Cell16_unpack_counts(s)
                          [] i = 4 -> Cell16_unpack_proportions(s)
                          [] i = 5 -> Cell16_del_counts(s)
                          [] i = 6 -> Cell16_del_proportions(s)
                          [] OTHER -> Cell16_DataFrame(s)
           [] c = 17 -> (IF i = 1 THEN Cell17_node_colors(s) ELSE Cell17_plot_graph(s))
           [] c = 18 -> CASE i = 1 -> Cell18_get_digraph(s)
                          [] i = 2 -> Cell18_betweenness(s)
                          [] i = 3 -> Cell18_max(s)
                          [] OTHER -> Cell18_show(s)
           [] c = 19 -> CASE i = 1 -> Cell19_nc(s)
                          [] i = 2 -> Cell19_ns(s)
                          [] OTHER -> Cell19_plot_graph(s)
           [] c = 20 -> CASE i = 1 -> Cell20_set_node_attributes(s)
                          [] i = 2 -> Cell20_node_colors(s)
                          [] OTHER -> Cell20_plot_graph(s)
           [] c = 21 -> Cell21_save_graph_geopackage(s)
           [] c = 22 -> Cell22_save_graph_shapefile(s)
           [] c = 23 -> Cell23_save_svg(s)
           [] OTHER -> s

\* the first k statements of cell c
RECURSIVE Exec(_, _, _)
Exec(c, k, s) == IF k = 0 THEN s ELSE Stmt(c, k, Exec(c, k - 1, s))

\* code cell c run again k times on the kernel state s, as long as no
\* statement raises
RECURSIVE Rerun(_, _, _)
Rerun(c, k, s) ==
    IF k = 0 \/ s.error # "" THEN s
    ELSE Rerun(c, k - 1, Exec(c, NStmts[c], [s EXCEPT !.uses = {}, !.reads = {}, !.writes = {}]))

\* the kernel takes over what the cell did, and the cell is logged
Commit(s, ok) ==
    /\ ns' = s.ns
    /\ heap' = s.heap
    /\ files' = s.files
    /\ calls' = s.calls
    /\ error' = s.error
    /\ log' = Append(log, [cell |-> s.cell, uses |-> s.uses, reads |-> s.reads,
                            writes |-> s.writes, ok |-> ok])
    /\ executing' = {}
    /\ UNCHANGED world

\* (the bug of going on with the next cell after an exception)
Halt_Continue(c) == [pc |-> c + 1, status |-> IF c = NCells THEN "done" ELSE "idle"]

\* (the bug of running the cell again after an exception)
Halt_Retry(c) == [pc |-> c, status |-> "idle"]

\* no cell handles an exception: the run stops at the cell that raised
Halt(c) == [pc |-> c, status |-> "failed"]

\* the next code cell starts when no cell is running
StartCell ==
    /\ status = "idle"
    /\ pc <= NCells
    /\ status' = "running"
    /\ executing' = executing \cup {pc}
    /\ UNCHANGED <<pc, error, ns, heap, files, calls, log, world>>

\* the running cell completes
FinishCell ==
    /\ status = "running"
    /\ LET s == Exec(pc, NStmts[pc], Kernel(pc))
       IN /\ s.error = ""
          /\ Commit(s, TRUE)
    /\ pc' = pc + 1
    /\ status' = IF pc = NCells THEN "done" ELSE "idle"

\* a statement of the running cell raises on the values it is given
RaiseInCell ==
    /\ status = "running"
    /\ LET s == Exec(pc, NStmts[pc], Kernel(pc))
       IN /\ s.error # ""
          /\ Commit(s, FALSE)
    /\ pc' = Halt(pc).pc
    /\ status' = Halt(pc).status

\* a library call of the running cell fails (network, service, file system)
LibraryFailure ==
    /\ status = "running"
    /\ \E k \in 0..(NStmts[pc] - 1) :
         LET s1 == Exec(pc, k, Kernel(pc))
             s2 == Stmt(pc, k + 1, [s1 EXCEPT !.fault = TRUE])
         IN /\ s1.error = ""
            /\ s2.error = "LibraryError"
            /\ Commit(s2, FALSE)
    /\ pc' = Halt(pc).pc
    /\ status' = Halt(pc).status

Next == StartCell \/ FinishCell \/ RaiseInCell \/ LibraryFailure

(* ------------------------------ the world ----------------------------- *)
World(point, betweenness, file, polygon, place, basic_stats) ==
    [point |-> point, betweenness |-> betweenness, file |-> file,
     polygon |-> polygon, place |-> place, basic_stats |-> basic_stats]

\* a betweenness score for every node
ScoresById(nodes) == [n \in Range(nodes) |-> n % (MaxScore + 1)]

\* What the run can meet.  The cells that use the street network, the
\* boundary table and the statistics do not use each other's values, so
\* each of them ranges over all its values while the others are fixed.
Worlds ==
    {World(g, ScoresById(g.nodes), BaseTable, BaseGraph, BaseGraph, BaseStats)
        : g \in Graphs}
    \cup UNION {{World(MkGraph(s, {}), b, BaseTable, BaseGraph, BaseGraph, BaseStats)
                    : b \in [Range(s) -> 0..MaxScore]} : s \in NodeSeqs}
    \cup {World(BaseGraph, ScoresById(<<1>>), f, BaseGraph, BaseGraph, BaseStats)
            : f \in Tables}
    \cup {World(BaseGraph, ScoresById(<<1>>), BaseTable, MkGraph(s, {}), BaseGraph, BaseStats)
            : s \in NodeSeqs}
    \cup {World(BaseGraph, ScoresById(<<1>>), BaseTable, BaseGraph, MkGraph(s, {}), BaseStats)
            : s \in NodeSeqs}
    \cup {World(BaseGraph, ScoresById(<<1>>), BaseTable, BaseGraph, BaseGraph, d)
            : d \in StatsDicts}

\* a fresh kernel
Init ==
    /\ pc = 1
    /\ status = "idle"
    /\ error = ""
    /\ executing = {}
    /\ ns = EmptyFcn
    /\ heap = EmptyFcn
    /\ files = {}
    /\ calls = <<>>
    /\ log = <<>>
    /\ world \in Worlds

Spec == Init /\ [][Next]_vars


(* ============================== claims ================================ *)
\* the calls of fn made so far
CallsOf(fn) == {i \in DOMAIN calls : calls[i].fn = fn}

\* the cells that ran to the end
Completed == {log[i].cell : i \in {j \in DOMAIN log : log[j].ok}}

\* the cells in which a statement raised
Failed == {log[i].cell : i \in {j \in DOMAIN log : ~log[j].ok}}

(* C1: when a code cell fails, the run halts at that cell: the failed cell *)
(* is the last one logged, no cell after it is started, no call of a later *)
(* cell is made, and the failure is never cleared.                         *)
C1_FailureHalts ==
    /\ (error # "" \/ Failed # {}) =>
          /\ status = "failed"
          /\ error # ""
          /\ executing = {}
          /\ Failed = {pc}
          /\ Len(log) = pc
          /\ ~log[pc].ok
          /\ \A i \in DOMAIN calls : calls[i].cell <= pc
          /\ \A i \in DOMAIN log : log[i].cell <= pc
    /\ status = "failed" => error # ""

\* the shapefile export failed: the SVG export never ran
C1_Witness ==
    /\ status = "failed"
    /\ pc = 22
    /\ error = "LibraryError"
    /\ CallsOf("ox.save_graph_shapefile") # {}
    /\ \A i \in DOMAIN calls : calls[i].arg # "hk_graph, save=True"
    /\ \A f \in files : f.cell # 23

(* C2 as stated: the three exports write into one and the same directory. *)
C2_Original_OneDirectory ==
    \A f, g \in files : Parent(f.target) = Parent(g.target)

(* C2, amended: the GeoPackage file and the Shapefile directory lie in     *)
(* ./data-output, the SVG image lies in the working directory ".", and     *)
(* each export writes to its own fixed relative path.                      *)
C2_OutputPaths ==
    /\ \A f \in files :
          /\ f.cell \in {21, 22, 23}
          /\ f.cell = 21 => /\ f.target = <<".", "data-output", "hk_graph.gpkg">>
                            /\ f.path = f.target
          /\ f.cell = 22 => /\ f.target = <<".", "data-output", "hk_graph">>
                            /\ Parent(f.path) = f.target
          /\ f.cell = 23 => /\ f.target = <<".", "hk_graph.svg">>
                            /\ f.path = f.target
          /\ f.cell \in {21, 22} => Parent(f.target) = <<".", "data-output">>
          /\ f.cell = 23 => Parent(f.target) = <<".">>
    /\ status = "done" => {f.cell : f \in files} = {21, 22, 23}

\* all three outputs are written
C2_Witness ==
    /\ status = "done"
    /\ Cardinality({f.target : f \in files}) = 3
    /\ \E f \in files : Parent(f.target) = <<".">>
    /\ \E f \in files : Parent(f.target) = <<".", "data-output">>


\* the aliases of the imported libraries
Modules == {"gpd", "nx", "ox", "pd"}

\* the variables that hold a street network
GraphVars == {"hk_graph", "chiyoda_graph", "ty_graph"}

\* the names a logged cell read from earlier cells, the aliases left out
Carried(i) == log[i].reads \ Modules

\* the cells that read the name from an earlier cell
Readers(name) == {log[i].cell : i \in {j \in DOMAIN log : name \in log[j].reads}}

\* the cells that wrote the name
Writers(name) == {log[i].cell : i \in {j \in DOMAIN log : name \in log[j].writes}}

(* C3 as stated: a code cell reads from earlier cells only a graph         *)
(* variable (hk_graph, chiyoda_graph, ty_graph).                           *)
C3_Original_OnlyGraphCarried ==
    \A i \in DOMAIN log : Carried(i) \subseteq GraphVars

(* C3, amended: besides the library aliases, a cell reads from earlier     *)
(* cells only hk_graph or chiyoda_graph, or one of tokyo_pre_boundary      *)
(* (cells 6, 7), chiyoda (8, 9, 10), stats (15, 16), max_node (19) and bc  *)
(* (20); ty_graph and every other variable is read by no later cell.       *)
C3_CarriedState ==
    /\ \A i \in DOMAIN log :
          Carried(i) \subseteq {"hk_graph", "chiyoda_graph", "tokyo_pre_boundary",
                                "chiyoda", "stats", "max_node", "bc"}
    /\ Readers("tokyo_pre_boundary") \subseteq {6, 7}
    /\ Readers("chiyoda") \subseteq {8, 9, 10}
    /\ Readers("stats") \subseteq {15, 16}
    /\ Readers("max_node") \subseteq {19}
    /\ Readers("bc") \subseteq {20}
    /\ Readers("chiyoda_graph") \subseteq {11, 12}
    /\ Readers("hk_graph") \subseteq {4, 14, 17, 18, 19, 20, 21, 22, 23}
    /\ status = "done" =>
          /\ Readers("tokyo_pre_boundary") = {6, 7}
          /\ Readers("chiyoda") = {8, 9, 10}
          /\ Readers("stats") = {15, 16}
          /\ Readers("max_node") = {19}
          /\ Readers("bc") = {20}
          /\ Readers("chiyoda_graph") = {11, 12}
          /\ Readers("hk_graph") = {4, 14, 17, 18, 19, 20, 21, 22, 23}
          /\ Readers("ty_graph") = {}

\* the write-back cell has read bc, which the centrality cell produced
C3_Witness ==
    /\ 20 \in Completed
    /\ 20 \in Readers("bc")
    /\ 18 \in Writers("bc")

(* C4 as stated: no variable other than a graph variable is written by     *)
(* more than one code cell.                                                *)
C4_Original_OnlyGraphShared ==
    \A name \in DOMAIN ns \ GraphVars : Cardinality(Writers(name)) <= 1

(* C4, amended: hk_graph is created by cell 3 and changed in place by cell *)
(* 20, fig and ax are assigned by the cells 17, 19, 20 and 23, and nc by   *)
(* the cells 19 and 20; every other variable is written by one cell only.  *)
C4_SharedVariables ==
    /\ Writers("hk_graph") \subseteq {3, 20}
    /\ Writers("fig") \subseteq {17, 19, 20, 23}
    /\ Writers("ax") = Writers("fig")
    /\ Writers("nc") \subseteq {19, 20}
    /\ \A name \in DOMAIN ns \ {"hk_graph", "fig", "ax", "nc"} :
          Cardinality(Writers(name)) <= 1
    /\ \A i \in DOMAIN log : log[i].writes \subseteq DOMAIN ns
    /\ status = "done" =>
          /\ Writers("hk_graph") = {3, 20}
          /\ Writers("fig") = {17, 19, 20, 23}
          /\ Writers("nc") = {19, 20}

\* nc has been assigned a second time, by the write-back cell
C4_Witness ==
    /\ 20 \in Completed
    /\ Writers("nc") = {19, 20}
    /\ Writers("fig") = {17, 19, 20}

(* C5 as stated: basic_stats is called exactly once on each extracted      *)
(* graph, the result is read only by the display cell that follows it, and *)
(* it is never written to a file or attached to the graph.                 *)
C5_Original_StatsPerGraph ==
    /\ status = "done" =>
          \A g \in GraphVars :
             Cardinality({i \in CallsOf("ox.basic_stats") : calls[i].arg = g}) = 1
    /\ Readers("stats") \subseteq {15}
    /\ \A f \in files : f.var # "stats"

(* C5, amended: basic_stats is called exactly once in a run, on hk_graph   *)
(* only (chiyoda_graph and ty_graph get no statistics); the result is read *)
(* by the two cells that follow, the display cell 15 and the unpacking     *)
(* cell 16, and it is never written to a file or attached to a graph.      *)
C5_StatsOnce ==
    /\ \A i \in CallsOf("ox.basic_stats") : calls[i].arg = "hk_graph" /\ calls[i].cell = 14
    /\ Cardinality(CallsOf("ox.basic_stats")) <= 1
    /\ 14 \in Completed => Cardinality(CallsOf("ox.basic_stats")) = 1
    /\ Writers("stats") \subseteq {14}
    /\ Readers("stats") \subseteq {15, 16}
    /\ status = "done" => Readers("stats") = {15, 16}
    /\ \A f \in files : f.var = "hk_graph"
    /\ \A g \in GraphVars \cap DOMAIN ns :
          \A n \in DOMAIN ns[g].data : DOMAIN ns[g].data[n] \subseteq {"street_count", "bc"}

\* the statistics were taken, displayed and unpacked, and the run went on
C5_Witness ==
    /\ status = "done"
    /\ Cardinality(CallsOf("ox.basic_stats")) = 1
    /\ Readers("stats") = {15, 16}
    /\ files # {}


\* the score of node n in the dict bc
ScoreOf(n) ==
    LET i == CHOOSE j \in DOMAIN ns["bc"] : ns["bc"][j][1] = n IN ns["bc"][i][2]

(* C6: betweenness centrality is computed once, on the simple directed     *)
(* graph got from hk_graph, which has the nodes of hk_graph; once the      *)
(* write-back has run, every node of hk_graph has a "bc" attribute equal   *)
(* to its score, and no node lacks it when the colours are taken by "bc".  *)
C6_BetweennessWrittenBack ==
    /\ Cardinality(CallsOf("ox.get_digraph")) <= 1
    /\ Cardinality(CallsOf("nx.betweenness_centrality")) <= 1
    /\ status = "done" => Cardinality(CallsOf("nx.betweenness_centrality")) = 1
    /\ \A i \in CallsOf("nx.betweenness_centrality") : calls[i].arg = "hk_graph_di"
    /\ \A i \in CallsOf("ox.get_digraph") : calls[i].arg = "hk_graph"
    /\ "hk_graph_di" \in DOMAIN ns =>
          /\ ns["hk_graph_di"].nodes = ns["hk_graph"].nodes
          /\ \A e \in ns["hk_graph"].edges : <<e[1], e[2]>> \in ns["hk_graph_di"].edges
          /\ \A d \in ns["hk_graph_di"].edges :
                \E e \in ns["hk_graph"].edges : e[1] = d[1] /\ e[2] = d[2]
    /\ "bc" \in DOMAIN ns =>
          /\ Len(ns["bc"]) = Len(ns["hk_graph_di"].nodes)
          /\ \A i \in DOMAIN ns["bc"] :
                /\ ns["bc"][i][1] = ns["hk_graph_di"].nodes[i]
                /\ ns["bc"][i][2] = world.betweenness[ns["bc"][i][1]]
    /\ 20 \in Writers("hk_graph") =>
          \A n \in Range(ns["hk_graph"].nodes) :
             /\ "bc" \in DOMAIN ns["hk_graph"].data[n]
             /\ ns["hk_graph"].data[n]["bc"] = ScoreOf(n)
    /\ ("hk_graph" \in DOMAIN ns /\ 20 \notin Writers("hk_graph")) =>
          \A n \in Range(ns["hk_graph"].nodes) : "bc" \notin DOMAIN ns["hk_graph"].data[n]
    /\ \A i \in CallsOf("ox.plot.get_node_colors_by_attr") :
          calls[i].arg = "bc" => calls[i].val = 0
    /\ (20 \in Writers("nc")) => Len(ns["nc"]) = Len(ns["hk_graph"].nodes)

\* the scores of a graph with parallel edges and two nodes of different
\* score have been written back and coloured
C6_Witness ==
    /\ 20 \in Completed
    /\ Len(ns["hk_graph"].nodes) = 2
    /\ \E n, m \in Range(ns["hk_graph"].nodes) :
          ns["hk_graph"].data[n]["bc"] # ns["hk_graph"].data[m]["bc"]
    /\ \E e \in ns["hk_graph"].edges : e[3] = 1
    /\ Cardinality(ns["hk_graph_di"].edges) < Cardinality(ns["hk_graph"].edges)

\* a row of the boundary file has the district name of the filter
SomeRowMatches == \E j \in DOMAIN world.file : world.file[j].N03_004 = CHIYODA_KU

(* C7: the boundary file is read once; the polygon passed to               *)
(* graph_from_polygon is the geometry of a row named CHIYODA_KU; the       *)
(* element ['geometry'][0] is taken from the kept rows wherever the        *)
(* matching row stands in the file; and the cell fails when no row matches.*)
C7_Original_PolygonOfMatchingRow ==
    /\ Cardinality(CallsOf("gpd.read_file")) <= 1
    /\ \A i \in CallsOf("ox.graph_from_polygon") :
          \E j \in DOMAIN world.file :
             /\ world.file[j].N03_004 = CHIYODA_KU
             /\ world.file[j].geometry = calls[i].val
    /\ (SomeRowMatches /\ Len(log) >= 9) => 9 \in Completed
    /\ (~SomeRowMatches /\ Len(log) >= 9) => 9 \in Failed

(* C8: at most one cell executes at a time, the cells run in order, each   *)
(* after the one before it has completed, and each remote query is issued  *)
(* at most once, also when it fails.                                       *)
C8_SequentialNoRetry ==
    /\ Cardinality(executing) <= 1
    /\ status = "running" <=> executing = {pc}
    /\ status # "running" => executing = {}
    /\ \A i \in DOMAIN log : log[i].cell = i
    /\ \A i \in DOMAIN log : i < Len(log) => log[i].ok
    /\ Len(log) = (IF status = "failed" THEN pc ELSE pc - 1)
    /\ \A i \in DOMAIN calls : i < Len(calls) => calls[i].cell <= calls[i + 1].cell
    /\ \A fn \in {"ox.graph_from_point", "gpd.read_file",
                  "ox.graph_from_polygon", "ox.graph_from_place"} :
          Cardinality(CallsOf(fn)) <= 1
    /\ status = "done" =>
          \A fn \in {"ox.graph_from_point", "gpd.read_file",
                     "ox.graph_from_polygon", "ox.graph_from_place"} :
             Cardinality(CallsOf(fn)) = 1

\* the query by place name was issued, failed, and was not issued again
C8_Witness ==
    /\ status = "failed"
    /\ pc = 13
    /\ error = "LibraryError"
    /\ Cardinality(CallsOf("ox.graph_from_place")) = 1
    /\ "ty_graph" \notin DOMAIN ns

\* the stage of the system overview a call belongs to (0: none)
StageOf(call) ==
    CASE call.fn = "gpd.read_file" -> 1
      [] call.fn \in {"ox.graph_from_point", "ox.graph_from_polygon",
                      "ox.graph_from_place"} -> 2
      [] call.fn \in {"ox.basic_stats", "pd.Series", "pd.DataFrame"} -> 3
      [] call.fn \in {"ox.get_digraph", "nx.betweenness_centrality",
                      "nx.set_node_attributes"} -> 4
      [] call.fn \in {"ox.save_graph_geopackage", "ox.save_graph_shapefile"} -> 6
      [] call.fn = "ox.plot_graph" /\ call.arg = "hk_graph, save=True" -> 6
      [] call.fn \in {"ox.plot_graph", "ox.plot_graph_folium", "chiyoda.plot",
                      "ox.plot.get_node_colors_by_attr"} -> 5
      [] OTHER -> 0

(* C9 as stated: the operations run in the order boundary acquisition,     *)
(* extraction, statistics, centrality, visualization, export: no operation *)
(* of an earlier stage runs after one of a later stage.                    *)
C9_Original_StagesInOrder ==
    LET stage == [i \in DOMAIN calls |-> StageOf(calls[i])]
    IN \A i, j \in DOMAIN calls :
          (i < j /\ stage[i] # 0 /\ stage[j] # 0) => stage[i] <= stage[j]

(* C9, amended: plots and the reading of the boundary file aside, the      *)
(* operations run in the order extraction, statistics, centrality, export; *)
(* the boundary file is read after the extraction by point and before the  *)
(* extraction by polygon; and after the first export only exports run.     *)
C9_StagesWithoutPlots ==
    LET staged == {<<i, StageOf(calls[i])>> : i \in DOMAIN calls}
        ordered == {p \in staged : p[2] \in {2, 3, 4, 6}}
        exports == {p \in staged : p[2] = 6}
    IN /\ \A p, q \in ordered : p[1] < q[1] => p[2] <= q[2]
       /\ \A p \in exports : \A q \in staged : p[1] < q[1] => q[2] = 6
       /\ \A i \in CallsOf("gpd.read_file") :
             /\ \E j \in CallsOf("ox.graph_from_point") : j < i
             /\ \A j \in CallsOf("ox.graph_from_polygon") : i < j
       /\ \A j \in CallsOf("ox.graph_from_polygon") : CallsOf("gpd.read_file") # {}

\* a complete run, in which a plot came before the boundary file was read
\* and before the centrality was computed
C9_Witness ==
    /\ status = "done"
    /\ \E i, j \in DOMAIN calls :
          i < j /\ StageOf(calls[i]) = 5 /\ StageOf(calls[j]) = 1
    /\ \E i, j \in DOMAIN calls :
          i < j /\ StageOf(calls[i]) = 5 /\ StageOf(calls[j]) = 4

\* the keys the unpacking is to make for the street counts 0, 1, 2, 3
C10_CountKeys == <<"0way_int_count", "1way_int_count", "2way_int_count", "3way_int_count">>

C10_PropKeys == <<"0way_int_prop", "1way_int_prop", "2way_int_prop", "3way_int_prop">>

\* the unpacking cell has run up to its display statement
Unpacked ==
    /\ Len(log) >= 16
    /\ (log[16].ok \/ \E i \in CallsOf("pd.DataFrame") : TRUE)

(* C10: the unpacking cell flattens the two nested dicts of the stats      *)
(* dict: the two nested keys are gone, every key k of the nested counts    *)
(* (proportions) is the key "<k>way_int_count" ("<k>way_int_prop") with    *)
(* its value, every other key keeps its value, and the number of keys is   *)
(* the one before, less 2, plus the sizes of the two nested dicts.         *)
C10_StatsFlattened ==
    Unpacked =>
       LET st == world.basic_stats
           su == heap[ns["stats_unpack"].ref]
           counts == st["streets_per_node_counts"].v
           props == st["streets_per_node_proportions"].v
       IN /\ "streets_per_node_counts" \notin DOMAIN su
          /\ "streets_per_node_proportions" \notin DOMAIN su
          /\ \A k \in DOMAIN counts :
                /\ C10_CountKeys[k + 1] \in DOMAIN su
                /\ su[C10_CountKeys[k + 1]] = Num(counts[k])
          /\ \A k \in DOMAIN props :
                /\ C10_PropKeys[k + 1] \in DOMAIN su
                /\ su[C10_PropKeys[k + 1]] = Num(props[k])
          /\ \A key \in DOMAIN st \ {"streets_per_node_counts", "streets_per_node_proportions"} :
                key \in DOMAIN su /\ su[key] = st[key]
          /\ Cardinality(DOMAIN su) =
                Cardinality(DOMAIN st) - 2 + Cardinality(DOMAIN counts)
                   + Cardinality(DOMAIN props)

\* a stats dict with two street counts has been unpacked into six keys
C10_Witness ==
    /\ 16 \in Completed
    /\ Cardinality(DOMAIN world.basic_stats["streets_per_node_counts"].v) = 2
    /\ Cardinality(DOMAIN heap[ns["stats_unpack"].ref]) = 6
    /\ "1way_int_prop" \in DOMAIN heap[ns["stats_unpack"].ref]

\* the stats dict as it is now
StatsNow == heap[ns["stats"].ref]

\* the unpacking cell is run again k times on the kernel state s: no run
\* raises, and after each the two dicts have the contents they have now
RECURSIVE SameAfterReruns(_, _)
SameAfterReruns(k, s) ==
    \/ k = 0
    \/ LET t == Rerun(16, 1, s)
       IN /\ t.error = ""
          /\ t.heap[t.ns["stats"].ref] = world.basic_stats
          /\ t.heap[t.ns["stats_unpack"].ref] = heap[ns["stats_unpack"].ref]
          /\ SameAfterReruns(k - 1, t)

(* C11: the unpacking cell works on a copy.  Once the stats dict exists it *)
(* keeps the contents basic_stats returned: its two nested dicts with      *)
(* their contents and no "<k>way_int_count" or "<k>way_int_prop" key; the  *)
(* unpacked dict is another object; and running the unpacking cell again,  *)
(* once or several times, raises nothing, leaves the stats dict as it is   *)
(* and gives a stats_unpack with the same contents.                        *)
C11_UnpackWorksOnCopy ==
    /\ 14 \in Completed =>
          /\ StatsNow = world.basic_stats
          /\ {"streets_per_node_counts", "streets_per_node_proportions"} \subseteq DOMAIN StatsNow
          /\ DOMAIN StatsNow \cap (Range(C10_CountKeys) \cup Range(C10_PropKeys)) = {}
    /\ Unpacked =>
          /\ ns["stats_unpack"].ref # ns["stats"].ref
          /\ SameAfterReruns(MaxReruns, Kernel(16))

\* the unpacking cell has completed on a stats dict with two street counts,
\* which still has its four keys while the unpacked dict has six others
C11_Witness ==
    /\ 16 \in Completed
    /\ DOMAIN StatsNow = StatsKeys
    /\ DOMAIN StatsNow["streets_per_node_counts"].v = {0, 1}
    /\ StatsNow["streets_per_node_proportions"].v[1][2] > 0
    /\ DOMAIN heap[ns["stats_unpack"].ref] \cap StatsKeys = {"n", "m"}
    /\ Rerun(16, MaxReruns, Kernel(16)).error = ""

\* the highlight lists of cell 19 are bound and nc is not yet bound again
Highlighted ==
    /\ Len(log) = 19
    /\ {"nc", "ns"} \subseteq log[19].writes

\* the positions of the list at which the value is v
PositionsOf(list, v) == {i \in DOMAIN list : list[i] = v}

(* C12: max_node is a node of hk_graph, max_bc is its betweenness, and no  *)
(* node has a greater one; nc and ns have one entry per node of hk_graph   *)
(* in node order, "r" and 80 at the position of max_node and "w" and 5 at  *)
(* every other position, so that exactly one node is highlighted, also     *)
(* when several nodes have the greatest betweenness.                       *)
C12_OneNodeHighlighted ==
    /\ 18 \in Completed =>
          LET nodes == ns["hk_graph"].nodes
          IN /\ ns["max_node"] \in Range(nodes)
             /\ ns["max_bc"] = world.betweenness[ns["max_node"]]
             /\ \A n \in Range(nodes) : world.betweenness[n] <= ns["max_bc"]
    /\ Highlighted =>
          LET nodes == ns["hk_graph"].nodes
              at == PositionsOf(nodes, ns["max_node"])
          IN /\ DOMAIN ns["nc"] = DOMAIN nodes
             /\ DOMAIN ns["ns"] = DOMAIN nodes
             /\ Cardinality(at) = 1
             /\ PositionsOf(ns["nc"], "r") = at
             /\ PositionsOf(ns["nc"], "w") = DOMAIN nodes \ at
             /\ PositionsOf(ns["ns"], 80) = at
             /\ PositionsOf(ns["ns"], 5) = DOMAIN nodes \ at

\* two nodes tie for the greatest betweenness and only the first of them in
\* node order, which is not the one with the smaller id, is highlighted
C12_Witness ==
    /\ Highlighted
    /\ log[19].ok
    /\ ns["hk_graph"].nodes = <<2, 1>>
    /\ world.betweenness[1] = world.betweenness[2]
    /\ ns["max_node"] = 2
    /\ ns["nc"] = <<"r", "w">>
    /\ ns["ns"] = <<80, 5>>

\* the variables of the notebook that hold data
DataVars ==
    {"hk_graph", "tokyo_pre_boundary", "chiyoda", "chiyoda_graph", "stats",
     "hk_graph_di", "bc", "max_node"}

\* the name was assigned by a cell logged before entry i that ran to the end
AssignedBefore(name, i) == \E j \in 1..(i - 1) : log[j].ok /\ name \in log[j].writes

(* C13, as stated: every one of the data variables a code cell looks up    *)
(* was assigned by an earlier cell that ran to the end.                    *)
C13_Original_AssignedByEarlierCell ==
    \A i \in DOMAIN log :
       \A name \in log[i].uses \cap DataVars : AssignedBefore(name, i)

(* C13, amended: no cell looks up an undefined name.  Every name a cell    *)
(* looks up was assigned by an earlier cell that ran to the end or, before *)
(* the lookup, by a statement of the same cell; hk_graph_di is looked up   *)
(* only in cell 18, which assigns it, while bc and max_node are looked up  *)
(* there and in later cells.                                               *)
C13_DefinedBeforeRead ==
    /\ error # "NameError"
    /\ \A i \in DOMAIN log :
          /\ log[i].uses \subseteq log[i].reads \cup log[i].writes
          /\ \A name \in log[i].reads : AssignedBefore(name, i)
          /\ "hk_graph_di" \in log[i].uses =>
                (log[i].cell = 18 /\ "hk_graph_di" \in log[i].writes \ log[i].reads)
          /\ log[i].reads \cap {"bc", "max_node"} # {} => log[i].cell \in {19, 20}

\* the whole notebook has run: cell 18 looked up the hk_graph_di, bc and
\* max_node it had assigned itself, and cells 19 and 20 read max_node and bc
C13_Witness ==
    /\ status = "done"
    /\ Len(log) = NCells
    /\ {"hk_graph_di", "bc", "max_node"} \subseteq log[18].uses \ log[18].reads
    /\ "max_node" \in log[19].reads
    /\ "bc" \in log[20].reads
    /\ "stats" \in log[16].reads

====
